---- MODULE Spec2Model ----
(***************************************************************************)
(* A model of the Minimalist Grammar parser of nlparsers (src/src/mg):     *)
(* the feature algebra, lexical items, chains and derivation trees, the    *)
(* Merge and Move engines, the phase checker, the workspace registry and   *)
(* the breadth-first search driver parse_internal.                         *)
(*                                                                         *)
(* Option<T> is a sequence of length 0 (None) or 1 (Some).  A Vec is a     *)
(* sequence.  A sentence is a sequence of chunks, each a word or a run of  *)
(* whitespace (the string " ").                                            *)
(***************************************************************************)
EXTENDS Integers, Sequences, FiniteSets, TLC

VARIABLES
    lexicon,        \* MinimalistParser.lexicon: word -> set of LexicalItem
    config,         \* MinimalistParser.config (ParserConfig)
    next_index,     \* MinimalistParser.next_index
    workspaces,     \* MinimalistParser.workspaces (WorkspaceRegistry)
    setup,          \* which driver set-up function built this parser
    sentence,       \* the argument of the running parse_internal call
    words,          \* parse_internal: words
    lexical_trees,  \* parse_internal: lexical_trees
    queue,          \* parse_internal: queue
    seen_trees,     \* parse_internal: seen_trees
    pc,             \* position of parse_internal
    word_i,         \* parse_internal: position of the loop over words
    rounds,         \* parse_internal: iterations of the search loop begun
    attempts,       \* parse_internal: apply_merge / apply_move calls made
    result,         \* what parse_internal returned
    tree,           \* tree operand of a direct call (head / phase / tree)
    other,          \* second tree operand of a direct call (specifier)
    call            \* record of the last direct call and what it returned

vars == <<lexicon, config, next_index, workspaces, setup, sentence, words,
          lexical_trees, queue, seen_trees, pc, word_i, rounds, attempts,
          result, tree, other, call>>

parseVars == <<sentence, words, lexical_trees, queue, seen_trees, pc, word_i,
               rounds, attempts, result>>

None == <<>>
Some(x) == <<x>>
IsSome(o) == Len(o) = 1
Unwrap(o) == o[1]

Range(s) == {s[i] : i \in 1..Len(s)}
Tail1(s) == IF Len(s) = 0 THEN s ELSE Tail(s)

\* all orders in which a finite set can be iterated
Orders(S) ==
    {s \in [1..Cardinality(S) -> S] : \A x \in S : \E i \in DOMAIN s : s[i] = x}

(***************************************************************************)
(* Feature (feature.rs)                                                    *)
(***************************************************************************)
Feat(k, n, v, in) == [kind |-> k, name |-> n, val |-> v, inner |-> in]
Categorial(n) == Feat("Categorial", n, "", <<>>)
Selector(n) == Feat("Selector", n, "", <<>>)
Licensor(n) == Feat("Licensor", n, "", <<>>)
Licensee(n) == Feat("Licensee", n, "", <<>>)
StrongSelector(n) == Feat("StrongSelector", n, "", <<>>)
AdjunctSelector(n) == Feat("AdjunctSelector", n, "", <<>>)
Agreement(k, v) == Feat("Agreement", k, v, <<>>)
Phase(n) == Feat("Phase", n, "", <<>>)
Delayed(f) == Feat("Delayed", "", "", <<f>>)

\* a match that compares the kinds of the two features and not their names
MatchesAnyName(self, o) ==
    self.kind \in {"Selector", "StrongSelector"} /\ o.kind = "Categorial"

\* Feature::matches
matches(self, o) ==
    /\ self.kind \in {"Selector", "StrongSelector"}
    /\ o.kind = "Categorial"
    /\ self.name = o.name

\* Feature::matches_move
matches_move(self, o) ==
    self.kind = "Licensor" /\ o.kind = "Licensee" /\ self.name = o.name

triggers_head_movement(f) == f.kind = "StrongSelector"
feature_is_phase_head(f) == f.kind = "Phase"
is_delayed(f) == f.kind = "Delayed"

(***************************************************************************)
(* FeatureStructure (common/feature.rs), with Unspecified, Atomic and      *)
(* Variable values; a structure is a function from its keys to values.     *)
(***************************************************************************)
Atomic(s) == [kind |-> "Atomic", s |-> s]
Unspecified == [kind |-> "Unspecified", s |-> ""]
Variable(s) == [kind |-> "Variable", s |-> s]

values_unify(v1, v2) ==
    IF v1.kind = "Unspecified" \/ v2.kind = "Unspecified" THEN TRUE
    ELSE IF v1.kind = "Atomic" /\ v2.kind = "Atomic" THEN v1.s = v2.s
    ELSE IF v1.kind = "Variable" \/ v2.kind = "Variable" THEN TRUE
    ELSE FALSE

unify_values(v1, v2) ==
    IF v1.kind = "Unspecified" THEN Some(v2)
    ELSE IF v2.kind = "Unspecified" THEN Some(v1)
    ELSE IF v1.kind = "Atomic" /\ v2.kind = "Atomic"
         THEN (IF v1.s = v2.s THEN Some(v1) ELSE None)
    ELSE IF v1.kind = "Variable" THEN Some(v2)
    ELSE IF v2.kind = "Variable" THEN Some(v1)
    ELSE None

unifies_with(fs, o) ==
    \A k \in DOMAIN fs : k \in DOMAIN o => values_unify(fs[k], o[k])

unify(fs, o) ==
    IF ~unifies_with(fs, o) THEN None
    ELSE IF \E k \in DOMAIN o : k \in DOMAIN fs /\ unify_values(fs[k], o[k]) = None
    THEN None
    ELSE Some([k \in DOMAIN fs \cup DOMAIN o |->
                 IF k \in DOMAIN o
                 THEN (IF k \in DOMAIN fs THEN Unwrap(unify_values(fs[k], o[k]))
                       ELSE o[k])
                 ELSE fs[k]])

(***************************************************************************)
(* LexicalItem (lexical_item.rs)                                           *)
(***************************************************************************)
LexicalItem(pf, fs, agr) ==
    [phonetic_form |-> pf, features |-> fs, agreement_features |-> agr]
NewItem(pf, fs) == LexicalItem(pf, fs, None)
EmptyItem == LexicalItem("", <<>>, None)

item_first_feature(it) ==
    IF Len(it.features) = 0 THEN None ELSE Some(it.features[1])
item_remove_first_feature(it) ==
    [it EXCEPT !.features = Tail1(it.features)]
item_is_phase_head(it) ==
    \E i \in 1..Len(it.features) : feature_is_phase_head(it.features[i])

RECURSIVE DelayedOf(_)
\* the filter_map collecting the inner feature of every Delayed feature
DelayedOf(fs) ==
    IF Len(fs) = 0 THEN <<>>
    ELSE (IF fs[1].kind = "Delayed" THEN <<fs[1].inner[1]>> ELSE <<>>)
         \o DelayedOf(Tail(fs))
get_delayed_features(it) == DelayedOf(it.features)

(***************************************************************************)
(* Chain and DerivationTree (derivation.rs)                                *)
(***************************************************************************)
ChainNew(head) ==
    [head |-> head, tail |-> <<>>, agreement |-> head.agreement_features,
     is_phase_head |-> item_is_phase_head(head)]
ChainWithTail(head, tail) == [ChainNew(head) EXCEPT !.tail = tail]

merge_agreement(self, o) ==
    IF IsSome(o.agreement)
    THEN IF IsSome(self.agreement)
         THEN LET m == unify(Unwrap(self.agreement), Unwrap(o.agreement))
              IN IF IsSome(m) THEN [self EXCEPT !.agreement = m] ELSE self
         ELSE [self EXCEPT !.agreement = o.agreement]
    ELSE self

Node(chain, children, index, adj, delayed, isph, done) ==
    [chain |-> chain, children |-> children, index |-> index,
     is_adjunct |-> adj, delayed_features |-> delayed, is_phase |-> isph,
     phase_completed |-> done]

LeafTransferred(item, index) ==
    Node(ChainNew(item), <<>>, index, FALSE, get_delayed_features(item),
         item_is_phase_head(item), item_is_phase_head(item))

leaf(item, index) ==
    Node(ChainNew(item), <<>>, index, FALSE, get_delayed_features(item),
         item_is_phase_head(item), FALSE)

TraceNode(index) == Node(ChainNew(EmptyItem), <<>>, index, FALSE, <<>>, FALSE, FALSE)

first_feature(t) == item_first_feature(t.chain.head)
remove_first_feature(t) ==
    [t EXCEPT !.chain.head = item_remove_first_feature(t.chain.head)]

AnyPhaseFeature(fs) == \E i \in 1..Len(fs) : feature_is_phase_head(fs[i])

\* DerivationTree::merge
merge(left, right, head_features, index) ==
    LET head_item ==
            LexicalItem(IF left.chain.head.phonetic_form # ""
                        THEN left.chain.head.phonetic_form
                        ELSE right.chain.head.phonetic_form,
                        head_features, None)
        chain == merge_agreement(merge_agreement(ChainNew(head_item), left.chain),
                                 right.chain)
    IN Node(chain, <<left, right>>, index, FALSE, DelayedOf(head_features),
            AnyPhaseFeature(head_features), FALSE)

\* DerivationTree::pair_merge
pair_merge(host, adjunct, index) ==
    [host EXCEPT !.children = <<[adjunct EXCEPT !.is_adjunct = TRUE], host>>,
                 !.index = index]

\* DerivationTree::late_merge
late_merge(host, delayed_material, index) ==
    IF Len(host.delayed_features) = 0 THEN host
    ELSE LET feature == host.delayed_features[1]
             res == [host EXCEPT !.delayed_features = Tail(host.delayed_features)]
             ff == first_feature(delayed_material)
         IN IF /\ IsSome(ff)
               /\ feature.kind = "Selector"
               /\ Unwrap(ff).kind = "Categorial"
               /\ feature.name = Unwrap(ff).name
            THEN [res EXCEPT !.children = <<delayed_material, host>>,
                             !.index = index]
            ELSE res

\* a Move whose second trace takes the index of the new root
MoveTraceAtRootIndex(base, moved_chain, head_features, index) ==
    Node([head |-> LexicalItem(moved_chain.head.phonetic_form, head_features,
                               moved_chain.agreement),
          tail |-> moved_chain.tail,
          agreement |-> moved_chain.agreement,
          is_phase_head |-> moved_chain.is_phase_head],
         <<base, TraceNode(index)>>, index, FALSE, DelayedOf(head_features),
         AnyPhaseFeature(head_features), FALSE)

\* DerivationTree::move
move(base, moved_chain, head_features, index) ==
    Node([head |-> LexicalItem(moved_chain.head.phonetic_form, head_features,
                               moved_chain.agreement),
          tail |-> moved_chain.tail,
          agreement |-> moved_chain.agreement,
          is_phase_head |-> moved_chain.is_phase_head],
         <<base, TraceNode(0)>>, index, FALSE, DelayedOf(head_features),
         AnyPhaseFeature(head_features), FALSE)

\* complete_phase without its is_phase test
CompletePhaseUnguarded(t) == [t EXCEPT !.phase_completed = TRUE]

\* DerivationTree::complete_phase
complete_phase(t) ==
    IF t.is_phase THEN [t EXCEPT !.phase_completed = TRUE] ELSE t

(***************************************************************************)
(* PhaseConfig and PhaseChecker (phase.rs)                                 *)
(***************************************************************************)
DefaultMaxEdgeElements == 1

PhaseConfigDefault ==
    [enforce_pic |-> TRUE, phase_heads |-> <<"C", "v", "D">>,
     max_edge_elements |-> DefaultMaxEdgeElements, immediate_transfer |-> TRUE]

\* PhaseChecker::is_phase_head
is_phase_head(pcfg, node) ==
    IF \E i \in 1..Len(node.chain.head.features) :
           node.chain.head.features[i].kind = "Phase"
    THEN TRUE
    ELSE LET ff == first_feature(node)
         IN IF IsSome(ff) /\ Unwrap(ff).kind = "Categorial"
            THEN Unwrap(ff).name \in Range(pcfg.phase_heads)
            ELSE FALSE

RECURSIVE collect_specifiers(_)
\* PhaseChecker::collect_specifiers: the node and its chain of left children
collect_specifiers(node) ==
    <<node>> \o (IF Len(node.children) = 2
                 THEN collect_specifiers(node.children[1]) ELSE <<>>)

\* PhaseChecker::get_phase_edge
get_phase_edge(pcfg, phase) ==
    IF ~is_phase_head(pcfg, phase) THEN <<>>
    ELSE LET e == IF Len(phase.children) = 2
                  THEN collect_specifiers(phase.children[1]) ELSE <<>>
         IN IF Len(e) > pcfg.max_edge_elements
            THEN SubSeq(e, 1, pcfg.max_edge_elements) ELSE e

\* PhaseChecker::check_extraction
check_extraction(pcfg, phase, target_index) ==
    IF ~pcfg.enforce_pic THEN TRUE
    ELSE IF ~phase.phase_completed THEN TRUE
    ELSE LET e == get_phase_edge(pcfg, phase)
         IN \E i \in 1..Len(e) :
               \/ e[i].index = target_index
               \/ target_index \in Range(e[i].chain.tail)

RECURSIVE transfer_phase(_, _)
\* PhaseChecker::transfer_phase
transfer_phase(pcfg, t) ==
    IF ~is_phase_head(pcfg, t) THEN t
    ELSE LET c == complete_phase(t)
         IN IF Len(c.children) = 2
            THEN [c EXCEPT !.children = <<transfer_phase(pcfg, c.children[1]),
                                          transfer_phase(pcfg, c.children[2])>>]
            ELSE c

RECURSIVE phase_spine(_, _)
\* PhaseChecker::phase_spine / calculate_phase_spine
phase_spine(pcfg, node) ==
    (IF is_phase_head(pcfg, node) THEN <<node>> ELSE <<>>)
    \o (IF Len(node.children) = 2 THEN phase_spine(pcfg, node.children[2]) ELSE <<>>)

(***************************************************************************)
(* ParserConfig and the Merge engine (parser.rs)                           *)
(***************************************************************************)
DefaultMaxDerivationDepth == 20
DefaultMaxWorkspaces == 3

ParserConfigDefault ==
    [max_derivation_depth |-> DefaultMaxDerivationDepth,
     allow_remnant_movement |-> FALSE,
     allow_vacuous_movement |-> FALSE,
     movement_strategies |-> <<"Standard">>,
     merge_strategies |-> <<"Standard">>,
     sideward_movement_types |-> <<>>,
     enable_parallel_workspaces |-> FALSE,
     max_workspaces |-> DefaultMaxWorkspaces,
     phase_config |-> PhaseConfigDefault]

\* the result of a call that may draw an index: the value and the new counter
Ret(v, n) == [ret |-> v, next |-> n]

\* apply_merge, MergeStrategy::Standard arm: TRUE when it returns
StandardApplies(spec, head) ==
    /\ IsSome(first_feature(head))
    /\ IsSome(first_feature(spec))
    /\ matches(Unwrap(first_feature(head)), Unwrap(first_feature(spec)))

StandardMerge(spec, head, next) ==
    LET spec_new == remove_first_feature(spec)
        head_new == remove_first_feature(head)
        head_features == Tail(head.chain.head.features)
    IN IF triggers_head_movement(Unwrap(first_feature(head)))
       THEN Node(ChainNew(LexicalItem(head.chain.head.phonetic_form
                                        \o spec.chain.head.phonetic_form,
                                      head_features, None)),
                 <<spec_new, head_new>>, next, FALSE, <<>>, FALSE, FALSE)
       ELSE merge(spec_new, head_new, head_features, next)

\* apply_merge, MergeStrategy::PairMerge arm
PairMergeApplies(spec, head) ==
    /\ IsSome(first_feature(head))
    /\ IsSome(first_feature(spec))
    /\ Unwrap(first_feature(head)).kind = "AdjunctSelector"
    /\ Unwrap(first_feature(spec)).kind = "Categorial"
    /\ Unwrap(first_feature(head)).name = Unwrap(first_feature(spec)).name

PairMerge(spec, head, next) ==
    pair_merge(remove_first_feature(head), remove_first_feature(spec), next)

\* apply_merge, MergeStrategy::LateMerge arm
LateMergeApplies(spec, head) ==
    /\ Len(head.delayed_features) > 0
    /\ IsSome(first_feature(spec))
    /\ matches(head.delayed_features[1], Unwrap(first_feature(spec)))

\* a loop that tries the enabled strategies in the order Standard, PairMerge,
\* LateMerge, whatever order the list has
TryStrategiesFixedPriority(strategies, spec, head, next) ==
    IF "Standard" \in Range(strategies) /\ StandardApplies(spec, head)
    THEN Ret(Some(StandardMerge(spec, head, next)), next + 1)
    ELSE IF "PairMerge" \in Range(strategies) /\ PairMergeApplies(spec, head)
    THEN Ret(Some(PairMerge(spec, head, next)), next + 1)
    ELSE IF "LateMerge" \in Range(strategies) /\ LateMergeApplies(spec, head)
    THEN Ret(Some(late_merge(head, spec, next)), next + 1)
    ELSE Ret(None, next)

RECURSIVE TryStrategies(_, _, _, _)
\* the loop of apply_merge over config.merge_strategies, in the listed order
TryStrategies(strategies, spec, head, next) ==
    IF Len(strategies) = 0 THEN Ret(None, next)
    ELSE LET s == strategies[1]
         IN IF s = "Standard" /\ StandardApplies(spec, head)
            THEN Ret(Some(StandardMerge(spec, head, next)), next + 1)
            ELSE IF s = "PairMerge" /\ PairMergeApplies(spec, head)
            THEN Ret(Some(PairMerge(spec, head, next)), next + 1)
            ELSE IF s = "LateMerge" /\ LateMergeApplies(spec, head)
            THEN Ret(Some(late_merge(head, spec, next)), next + 1)
            ELSE TryStrategies(Tail(strategies), spec, head, next)

\* a test that refuses every phase, completed or not
PicBlocksAnyPhase(cfg, head) ==
    cfg.phase_config.enforce_pic /\ head.is_phase

\* the Phase Impenetrability test at the top of apply_merge
PicBlocks(cfg, head) ==
    cfg.phase_config.enforce_pic /\ head.is_phase /\ head.phase_completed

\* MinimalistParser::apply_merge
apply_merge(cfg, spec, head, next) ==
    IF PicBlocks(cfg, head) THEN Ret(None, next)
    ELSE TryStrategies(cfg.merge_strategies, spec, head, next)

(***************************************************************************)
(* The Move engine (parser.rs)                                             *)
(***************************************************************************)
IsLicensee(t, licensor) ==
    /\ IsSome(first_feature(t))
    /\ Unwrap(first_feature(t)).kind = "Licensee"
    /\ Unwrap(first_feature(t)).name = licensor

RECURSIVE FindInternalRightFirst(_, _, _)
\* a search that tries the right child before the left one
FindInternalRightFirst(t, licensor, path) ==
    IF IsLicensee(t, licensor) THEN Some(path)
    ELSE IF Len(t.children) = 2
    THEN LET r == FindInternalRightFirst(t.children[2], licensor,
                                         Append(path, TRUE))
         IN IF IsSome(r) THEN r
            ELSE FindInternalRightFirst(t.children[1], licensor,
                                        Append(path, FALSE))
    ELSE None

RECURSIVE find_internal(_, _, _)
\* find_movable_element::find_internal: the path (FALSE = left, TRUE = right)
\* to the first node in pre-order whose first feature is Licensee(licensor)
find_internal(t, licensor, path) ==
    IF IsLicensee(t, licensor) THEN Some(path)
    ELSE IF Len(t.children) = 2
    THEN LET l == find_internal(t.children[1], licensor, Append(path, FALSE))
         IN IF IsSome(l) THEN l
            ELSE find_internal(t.children[2], licensor, Append(path, TRUE))
    ELSE None

RECURSIVE NodeAt(_, _)
NodeAt(t, path) ==
    IF Len(path) = 0 THEN t
    ELSE NodeAt(t.children[IF path[1] THEN 2 ELSE 1], Tail(path))

\* the chain find_internal builds for the node it found (tail filled in later)
MovedChain(found) ==
    ChainWithTail(LexicalItem(found.chain.head.phonetic_form,
                              Tail(found.chain.head.features),
                              found.chain.agreement),
                  <<>>)

RECURSIVE create_moved_tree(_, _)
\* find_movable_element::create_moved_tree: the tree with a trace at the path
create_moved_tree(t, path) ==
    IF Len(path) = 0 THEN TraceNode(t.index)
    ELSE IF Len(t.children) = 2
    THEN IF path[1]
         THEN [t EXCEPT !.children =
                   <<t.children[1], create_moved_tree(t.children[2], Tail(path))>>]
         ELSE [t EXCEPT !.children =
                   <<create_moved_tree(t.children[1], Tail(path)), t.children[2]>>]
    ELSE t

\* MinimalistParser::find_movable_element: None or Some(<<chain, new_tree>>)
find_movable_element(t, licensor) ==
    LET p == find_internal(t, licensor, <<>>)
    IN IF IsSome(p)
       THEN LET found == NodeAt(t, Unwrap(p))
                trace_indices == <<found.index>>
            IN Some(<<[MovedChain(found) EXCEPT !.tail = trace_indices],
                      create_moved_tree(t, Unwrap(p))>>)
       ELSE None

\* a Move whose new root takes the displaced item's remaining features
ApplyMoveMovedFeatures(t, next) ==
    LET ff == first_feature(t)
    IN IF IsSome(ff) /\ Unwrap(ff).kind = "Licensor"
       THEN LET m == find_movable_element(t, Unwrap(ff).name)
            IN IF IsSome(m)
               THEN Ret(Some(move(remove_first_feature(Unwrap(m)[2]),
                                  Unwrap(m)[1],
                                  Unwrap(m)[1].head.features,
                                  next)),
                        next + 1)
               ELSE Ret(None, next)
       ELSE Ret(None, next)

\* MinimalistParser::apply_move
apply_move(t, next) ==
    LET ff == first_feature(t)
    IN IF IsSome(ff) /\ Unwrap(ff).kind = "Licensor"
       THEN LET m == find_movable_element(t, Unwrap(ff).name)
            IN IF IsSome(m)
               THEN Ret(Some(move(remove_first_feature(Unwrap(m)[2]),
                                  Unwrap(m)[1],
                                  Tail(t.chain.head.features),
                                  next)),
                        next + 1)
               ELSE Ret(None, next)
       ELSE Ret(None, next)

(***************************************************************************)
(* Linearization and comparison (parser.rs)                                *)
(***************************************************************************)
RECURSIVE collect_phonetic_forms(_)
\* linearize::collect_phonetic_forms: pre-order list of <<form, index>>
collect_phonetic_forms(t) ==
    (IF t.chain.head.phonetic_form # "" /\ t.index \notin Range(t.chain.tail)
     THEN <<<<t.chain.head.phonetic_form, t.index>>>> ELSE <<>>)
    \o (IF Len(t.children) = 2
        THEN collect_phonetic_forms(t.children[1])
             \o collect_phonetic_forms(t.children[2])
        ELSE <<>>)

RECURSIVE InsertByKey(_, _)
\* insert after every element whose key is not greater (a stable sort)
InsertByKey(sorted, e) ==
    IF Len(sorted) = 0 THEN <<e>>
    ELSE IF sorted[1][2] <= e[2] THEN <<sorted[1]>> \o InsertByKey(Tail(sorted), e)
    ELSE <<e>> \o sorted

RECURSIVE SortByKey(_)
\* Vec::sort_by_key on the index
SortByKey(forms) ==
    IF Len(forms) = 0 THEN <<>>
    ELSE InsertByKey(SortByKey(SubSeq(forms, 1, Len(forms) - 1)), forms[Len(forms)])

\* MinimalistParser::linearize
linearize(t) ==
    LET sorted == SortByKey(collect_phonetic_forms(t))
    IN [i \in 1..Len(sorted) |-> sorted[i][1]]

\* matches_input without its length test (zip stops at the shorter side)
MatchesInputZipOnly(derived, input) ==
    \A i \in 1..Len(derived) : i <= Len(input) => derived[i] = input[i]

\* MinimalistParser::matches_input
matches_input(derived, input) ==
    IF Len(derived) # Len(input) THEN FALSE
    ELSE \A i \in 1..Len(derived) : derived[i] = input[i]

\* tree_equals
tree_equals(a, b) ==
    /\ a.index = b.index
    /\ a.chain.head.features = b.chain.head.features
    /\ a.chain.head.phonetic_form = b.chain.head.phonetic_form

RECURSIVE split_whitespace(_)
\* str::split_whitespace on a sentence given as chunks
split_whitespace(s) ==
    IF Len(s) = 0 THEN <<>>
    ELSE (IF s[1] = " " THEN <<>> ELSE <<s[1]>>) \o split_whitespace(Tail(s))

\* the acceptance test of parse_internal, before linearization
IsComplete(t) ==
    /\ IsSome(first_feature(t))
    /\ Unwrap(first_feature(t)).kind = "Categorial"
    /\ Unwrap(first_feature(t)).name = "C"
    /\ Len(t.chain.head.features) = 1

Accepts(t, input) == IsComplete(t) /\ matches_input(linearize(t), input)

(***************************************************************************)
(* Workspace and WorkspaceRegistry (workspace.rs)                          *)
(***************************************************************************)
WorkspaceNew(id) == [tree |-> None, id |-> id, active |-> TRUE]
RegistryNew == [workspaces |-> <<>>, next_id |-> 0]

\* position of the first workspace with this id (and active, if asked), or 0
FindWs(reg, id, mustBeActive) ==
    LET hits == {i \in 1..Len(reg.workspaces) :
                    /\ reg.workspaces[i].id = id
                    /\ (mustBeActive => reg.workspaces[i].active)}
    IN IF hits = {} THEN 0 ELSE CHOOSE i \in hits : \A j \in hits : i <= j

\* new_workspace without the increment of next_id
NewWorkspaceSameId(reg) ==
    <<[workspaces |-> Append(reg.workspaces, WorkspaceNew(reg.next_id)),
       next_id |-> reg.next_id],
      reg.next_id>>

\* WorkspaceRegistry::new_workspace: <<registry, id>>
new_workspace(reg) ==
    <<[workspaces |-> Append(reg.workspaces, WorkspaceNew(reg.next_id)),
       next_id |-> reg.next_id + 1],
      reg.next_id>>

\* WorkspaceRegistry::add_tree: <<registry, bool>>
add_tree(reg, id, t) ==
    LET i == FindWs(reg, id, TRUE)
    IN IF i # 0 THEN <<[reg EXCEPT !.workspaces[i].tree = Some(t)], TRUE>>
       ELSE <<reg, FALSE>>

\* WorkspaceRegistry::get_tree
get_tree(reg, id) ==
    LET i == FindWs(reg, id, TRUE)
    IN IF i # 0 THEN reg.workspaces[i].tree ELSE None

\* WorkspaceRegistry::deactivate / activate
deactivate(reg, id) ==
    LET i == FindWs(reg, id, FALSE)
    IN IF i # 0 THEN [reg EXCEPT !.workspaces[i].active = FALSE] ELSE reg
activate(reg, id) ==
    LET i == FindWs(reg, id, FALSE)
    IN IF i # 0 THEN [reg EXCEPT !.workspaces[i].active = TRUE] ELSE reg

\* WorkspaceRegistry::transfer_tree: <<registry, bool>>
transfer_tree(reg, from_id, to_id) ==
    LET from_tree == get_tree(reg, from_id)
    IN IF IsSome(from_tree)
       THEN LET r1 == add_tree(reg, to_id, Unwrap(from_tree))[1]
                i == FindWs(r1, from_id, FALSE)
            IN <<IF i # 0 THEN [r1 EXCEPT !.workspaces[i].tree = None] ELSE r1,
                 TRUE>>
       ELSE <<reg, FALSE>>

\* WorkspaceRegistry::copy_tree: <<registry, Option<id>>>
copy_tree(reg, from_id) ==
    LET t == get_tree(reg, from_id)
    IN IF IsSome(t)
       THEN LET n == new_workspace(reg)
            IN <<add_tree(n[1], n[2], Unwrap(t))[1], Some(n[2])>>
       ELSE <<reg, None>>

\* WorkspaceRegistry::merge_workspaces: <<registry, Option<id>>>
merge_workspaces(reg, ws1, ws2) ==
    LET t1 == get_tree(reg, ws1)
        t2 == get_tree(reg, ws2)
    IN IF IsSome(t1) /\ IsSome(t2)
       THEN LET n == new_workspace(reg)
                r1 == add_tree(n[1], n[2], Unwrap(t1))[1]
            IN <<deactivate(deactivate(r1, ws1), ws2), Some(n[2])>>
       ELSE <<reg, None>>

(***************************************************************************)
(* Lexicon (common/lexicon.rs): the map word -> set of categories, held as *)
(* the set of its <<word, category>> pairs.                                *)
(***************************************************************************)
SidewardMovementTypes ==
    {"NunesStyle", "ParallelDerivation", "Multidominance", "WholesaleLate"}

\* MinimalistParser::sideward_move: the returned tree, the counter and the
\* registry after the call
sideward_move(reg, next, source_workspace_id, target_workspace_id, moved_chain, movement_type) ==
    LET source_tree == get_tree(reg, source_workspace_id)
        target_tree == get_tree(reg, target_workspace_id)
    IN IF source_tree = None \/ target_tree = None
       THEN [ret |-> None, next |-> next, workspaces |-> reg]
       ELSE IF movement_type = "NunesStyle"
       THEN [ret |-> Some(Node(moved_chain,
                               <<Unwrap(target_tree), leaf(EmptyItem, next)>>,
                               next + 1, FALSE, <<>>, FALSE, FALSE)),
             next |-> next + 2,
             workspaces |-> add_tree(reg, source_workspace_id,
                                     Unwrap(source_tree))[1]]
       ELSE IF movement_type = "ParallelDerivation"
       THEN LET n == new_workspace(reg)
                moved_element == Node(moved_chain, <<>>, next, FALSE, <<>>,
                                      FALSE, FALSE)
            IN [ret |-> Some(moved_element),
                next |-> next + 1,
                workspaces |-> add_tree(n[1], n[2], moved_element)[1]]
       ELSE IF movement_type = "Multidominance"
       THEN [ret |-> Some(Node(moved_chain,
                               <<Unwrap(target_tree), Unwrap(source_tree)>>,
                               next, FALSE, <<>>, FALSE, FALSE)),
             next |-> next + 1,
             workspaces |-> reg]
       ELSE LET t == Unwrap(target_tree)
            IN [ret |-> Some(IF Len(moved_chain.head.features) > 0
                             THEN [t EXCEPT !.delayed_features =
                                      Append(t.delayed_features,
                                             Delayed(moved_chain.head.features[1]))]
                             ELSE t),
                next |-> next,
                workspaces |-> reg]

\* FeatureTypeRegistry::default, the registry MinimalistParser::new installs;
\* no set-up function modelled here registers further names
FeatureTypesDefault ==
    [categorial |-> {"C", "T", "v", "V", "D", "N", "P", "A"},
     licensors |-> {"wh", "case", "top", "foc"},
     licensees |-> {"wh", "case", "top", "foc"}]

is_categorial_registered(reg, feature) == feature \in reg.categorial

is_movement_registered(reg, feature) ==
    feature \in reg.licensors /\ feature \in reg.licensees

RECURSIVE validate_feature(_)
\* MinimalistParser::validate_feature
validate_feature(feature) ==
    IF feature.kind \in {"Categorial", "Selector", "StrongSelector",
                         "AdjunctSelector", "Phase"}
    THEN is_categorial_registered(FeatureTypesDefault, feature.name)
    ELSE IF feature.kind \in {"Licensor", "Licensee"}
    THEN is_movement_registered(FeatureTypesDefault, feature.name)
    ELSE IF feature.kind = "Agreement" THEN TRUE
    ELSE validate_feature(feature.inner[1])

LexiconNew == {}
LexiconAdd(lex, word, category) == lex \cup {<<word, category>>}
\* Lexicon::get_categories: the entries of the word; a HashSet, so the
\* order of the returned Vec is any order
get_categories(lex, word) == {e[2] : e \in {x \in lex : x[1] = word}}

RECURSIVE AddAll(_, _)
\* a set-up function: add_to_lexicon for each entry in turn
AddAll(lex, entries) ==
    IF Len(entries) = 0 THEN lex
    ELSE AddAll(LexiconAdd(lex, entries[1][1], entries[1][2]), Tail(entries))

\* setup_english_parser (the entries of the three-word grammar)
EnglishEntries ==
    << <<"the", NewItem("the", <<Categorial("D"), Selector("N")>>)>>,
       <<"cat", NewItem("cat", <<Categorial("N")>>)>>,
       <<"sleeps", NewItem("sleeps", <<Categorial("V"), Selector("D")>>)>> >>

\* setup_wh_parser, on top of the entries above
WhEntries ==
    EnglishEntries \o
    << <<"what", NewItem("what", <<Categorial("D"), Licensee("wh")>>)>>,
       <<"John", NewItem("John", <<Categorial("D")>>)>>,
       <<"saw", NewItem("saw", <<Categorial("V"), Selector("D"), Selector("D")>>)>>,
       <<"C", NewItem("", <<Categorial("C"), Licensor("wh"), Selector("T")>>)>>,
       <<"T", NewItem("", <<Categorial("T"), Selector("V")>>)>> >>

\* a selector-first grammar in the style of the unit tests of parser.rs
\* (test_merge_operation, test_move_operation), with an ambiguous word
TestEntries ==
    << <<"the", NewItem("the", <<Selector("N"), Categorial("D")>>)>>,
       <<"cat", NewItem("cat", <<Categorial("N")>>)>>,
       <<"sleeps", NewItem("sleeps", <<Selector("D"), Categorial("C")>>)>>,
       <<"yes", NewItem("yes", <<Categorial("C")>>)>>,
       <<"eats", NewItem("eats", <<Selector("N"), Selector("N"), Categorial("V")>>)>>,
       <<"what", NewItem("what", <<Categorial("D"), Licensee("wh")>>)>>,
       <<"asks", NewItem("asks", <<Selector("D"), Licensor("wh"), Categorial("C")>>)>>,
       <<"run", NewItem("run", <<Categorial("N")>>)>>,
       <<"run", NewItem("", <<Selector("N"), Categorial("C")>>)>>,
       <<"zap", NewItem("zap", <<Categorial("X"), Licensee("q")>>)>>,
       <<"runs", NewItem("runs", <<Categorial("V"),
                                   Delayed(StrongSelector("N"))>>)>>,
       <<"that", NewItem("that", <<Selector("N"), Categorial("C"),
                                   Phase("C")>>)>> >>

Setups == {"english", "wh", "test"}
EntriesOf(s) ==
    IF s = "english" THEN EnglishEntries
    ELSE IF s = "wh" THEN WhEntries
    ELSE TestEntries

\* the sentences handed to parse
Sentences ==
    { <<"the", " ", "cat", " ", "sleeps">>,
      <<"cat", " ", "the", " ", "sleeps">>,
      <<"what", " ", "John", " ", "saw">>,
      <<"yes">>,
      <<" ", "yes", " ", " ">>,
      <<>>,
      <<"cat", " ", "eats">>,
      <<"what", " ", "asks">>,
      <<"run", " ", "run">>,
      <<"the", " ", "zzz">>,
      <<"zzz", " ", "cat">>,
      <<"the", " ", "cat">>,
      <<"zap">>,
      <<"cat", " ", "runs">>,
      <<"cat", " ", "that">> }

\* a small round budget next to the default one
SmallDepth == 3

StrategyLists ==
    { <<"Standard">>, <<"Standard", "PairMerge", "LateMerge">>,
      <<"LateMerge", "PairMerge", "Standard">>, <<"PairMerge">>, <<>> }

Configs ==
    {[ParserConfigDefault EXCEPT !.max_derivation_depth = d,
                                 !.merge_strategies = m,
                                 !.phase_config.enforce_pic = e] :
        d \in {SmallDepth, DefaultMaxDerivationDepth},
        m \in {<<"Standard">>, <<"LateMerge", "PairMerge", "Standard">>},
        e \in BOOLEAN}
    \cup {[ParserConfigDefault EXCEPT !.phase_config.phase_heads = <<"N">>,
                                      !.phase_config.immediate_transfer = FALSE]}

\* the two covert heads parse_internal always seeds
NullT == NewItem("", <<Categorial("T"), Selector("V"), Selector("D")>>)
NullC == NewItem("", <<Categorial("C"), Selector("T")>>)

(***************************************************************************)
(* The search driver: MinimalistParser::parse_internal, step by step       *)
(***************************************************************************)
NoCall == [op |-> "none"]

\* MinimalistParser::new()
Init ==
    /\ lexicon = LexiconNew
    /\ config = ParserConfigDefault
    /\ next_index = 0
    /\ workspaces = RegistryNew
    /\ setup = "new"
    /\ sentence = <<>>
    /\ words = <<>>
    /\ lexical_trees = <<>>
    /\ queue = <<>>
    /\ seen_trees = <<>>
    /\ pc = "new"
    /\ word_i = 0
    /\ rounds = 0
    /\ attempts = 0
    /\ result = None
    /\ tree = None
    /\ other = None
    /\ call = NoCall

\* a driver's set-up function: add_to_lexicon for every entry, then set_config
SetupParser(s) ==
    /\ pc = "new"
    /\ lexicon' = AddAll(lexicon, EntriesOf(s))
    /\ config' = [ParserConfigDefault EXCEPT !.allow_remnant_movement = TRUE]
    /\ setup' = s
    /\ pc' = "idle"
    /\ UNCHANGED <<next_index, workspaces, sentence, words, lexical_trees, queue,
                   seen_trees, word_i, rounds, attempts, result, tree, other, call>>

\* Parser::set_config
SetConfig(cfg) ==
    /\ pc \in {"idle", "done"}
    /\ config' = cfg
    \* the locals of a finished parse_internal call are gone by now
    /\ sentence' = <<>>
    /\ words' = <<>>
    /\ lexical_trees' = <<>>
    /\ queue' = <<>>
    /\ seen_trees' = <<>>
    /\ word_i' = 0
    /\ rounds' = 0
    /\ attempts' = 0
    /\ result' = None
    /\ pc' = "idle"
    /\ UNCHANGED <<lexicon, next_index, workspaces, setup, tree, other, call>>

\* parse_internal, lines 231-238: reset the registry and the counter, tokenise
StartParse(s) ==
    /\ pc \in {"idle", "done"}
    /\ workspaces' = new_workspace(RegistryNew)[1]
    /\ next_index' = 0
    /\ sentence' = s
    /\ words' = split_whitespace(s)
    /\ lexical_trees' = <<>>
    /\ queue' = <<>>
    /\ seen_trees' = <<>>
    /\ word_i' = 1
    /\ rounds' = 0
    /\ attempts' = 0
    /\ result' = None
    /\ pc' = "seeding"
    /\ UNCHANGED <<lexicon, config, setup, tree, other, call>>

\* the leaves of one word: one per entry, each with the next index
LeavesOf(items, next) ==
    [i \in 1..Len(items) |-> leaf(items[i], next + i - 1)]

\* the loop over the words skipping an unknown word instead of returning
SeedWordSkipUnknown ==
    /\ pc = "seeding"
    /\ word_i <= Len(words)
    /\ LET items == get_categories(lexicon, words[word_i])
       IN IF items = {}
          THEN /\ word_i' = word_i + 1
               /\ UNCHANGED <<lexical_trees, next_index, result, pc>>
          ELSE \E order \in Orders(items) :
                  /\ lexical_trees' = lexical_trees \o LeavesOf(order, next_index)
                  /\ next_index' = next_index + Len(order)
                  /\ word_i' = word_i + 1
                  /\ UNCHANGED <<result, pc>>
    /\ UNCHANGED <<lexicon, config, workspaces, setup, sentence, words, queue,
                   seen_trees, rounds, attempts, tree, other, call>>

\* parse_internal, lines 242-253: one iteration of the loop over the words
SeedWord ==
    /\ pc = "seeding"
    /\ word_i <= Len(words)
    /\ LET items == get_categories(lexicon, words[word_i])
       IN IF items = {}
          THEN /\ result' = None
               /\ pc' = "done"
               /\ UNCHANGED <<lexical_trees, next_index, word_i>>
          ELSE \E order \in Orders(items) :
                  /\ lexical_trees' = lexical_trees \o LeavesOf(order, next_index)
                  /\ next_index' = next_index + Len(order)
                  /\ word_i' = word_i + 1
                  /\ UNCHANGED <<result, pc>>
    /\ UNCHANGED <<lexicon, config, workspaces, setup, sentence, words, queue,
                   seen_trees, rounds, attempts, tree, other, call>>

\* parse_internal, lines 255-282: the covert heads, then the queue
SeedNull ==
    /\ pc = "seeding"
    /\ word_i > Len(words)
    /\ lexical_trees' = lexical_trees \o
                        <<leaf(NullT, next_index), leaf(NullC, next_index + 1)>>
    /\ next_index' = next_index + 2
    /\ queue' = lexical_trees'
    /\ seen_trees' = <<>>
    /\ pc' = "search"
    /\ UNCHANGED <<lexicon, config, workspaces, setup, sentence, words, word_i,
                   rounds, attempts, result, tree, other, call>>

\* the dedupe test before a result is enqueued
Novel(t, seen) == ~\E i \in 1..Len(seen) : tree_equals(t, seen[i])

\* queue.push_back(result) when the call returned a tree not seen before
Enqueue(q, r, seen) ==
    q \o (IF IsSome(r.ret) /\ Novel(Unwrap(r.ret), seen)
          THEN <<Unwrap(r.ret)>> ELSE <<>>)

\* parse_internal, lines 306-322: the loop over seen_trees.  Iteration j makes
\* call 2j-1, apply_merge(current, seen[j]), and call 2j,
\* apply_merge(seen[j], current); a call draws the next free index exactly
\* when it returns a tree, so call c runs with the counter advanced by the
\* number of earlier calls that returned one.  Yields the queue and the counter.
MergeLoop(cfg, cur, seen, q, next) ==
    LET spec(c) == IF c % 2 = 1 THEN cur ELSE seen[c \div 2]
        head(c) == IF c % 2 = 1 THEN seen[(c + 1) \div 2] ELSE cur
        returns(c) == IsSome(apply_merge(cfg, spec(c), head(c), next).ret)
        drawn(c) == Cardinality({d \in 1..(c - 1) : returns(d)})
        calls == [c \in 1..(2 * Len(seen)) |->
                     apply_merge(cfg, spec(c), head(c), next + drawn(c))]
        Pushed(r) == IsSome(r.ret) /\ Novel(Unwrap(r.ret), seen)
        pushed == SelectSeq(calls, Pushed)
    IN [queue |-> q \o [k \in 1..Len(pushed) |-> Unwrap(pushed[k].ret)],
        next |-> next + drawn(2 * Len(seen) + 1)]

\* the search loop without its round budget
RoundNoBudget ==
    /\ pc = "search"
    /\ Len(queue) > 0
    /\ LET current_tree == Head(queue)
       IN /\ rounds' = rounds + 1
          /\ IF Accepts(current_tree, words)
             THEN /\ result' = Some(current_tree)
                  /\ pc' = "done"
                  /\ queue' = Tail(queue)
                  /\ UNCHANGED <<seen_trees, next_index, attempts>>
             ELSE LET m == MergeLoop(config, current_tree, seen_trees,
                                     Tail(queue), next_index)
                      mv == apply_move(current_tree, m.next)
                  IN /\ queue' = Enqueue(m.queue, mv, seen_trees)
                     /\ next_index' = mv.next
                     /\ seen_trees' = Append(seen_trees, current_tree)
                     /\ attempts' = attempts + 2 * Len(seen_trees) + 1
                     /\ UNCHANGED <<result, pc>>
    /\ UNCHANGED <<lexicon, config, workspaces, setup, sentence, words,
                   lexical_trees, word_i, tree, other, call>>

\* parse_internal, lines 285-334: one iteration of the search loop
Round ==
    /\ pc = "search"
    /\ rounds < config.max_derivation_depth
    /\ Len(queue) > 0
    /\ LET current_tree == Head(queue)
       IN /\ rounds' = rounds + 1
          /\ IF Accepts(current_tree, words)
             THEN /\ result' = Some(current_tree)
                  /\ pc' = "done"
                  /\ queue' = Tail(queue)
                  /\ UNCHANGED <<seen_trees, next_index, attempts>>
             ELSE LET m == MergeLoop(config, current_tree, seen_trees,
                                     Tail(queue), next_index)
                      mv == apply_move(current_tree, m.next)
                  IN /\ queue' = Enqueue(m.queue, mv, seen_trees)
                     /\ next_index' = mv.next
                     /\ seen_trees' = Append(seen_trees, current_tree)
                     /\ attempts' = attempts + 2 * Len(seen_trees) + 1
                     /\ UNCHANGED <<result, pc>>
    /\ UNCHANGED <<lexicon, config, workspaces, setup, sentence, words,
                   lexical_trees, word_i, tree, other, call>>

\* parse_internal, lines 286-288 and 336-338: the queue is empty or the
\* budget is used up
Exhaust ==
    /\ pc = "search"
    /\ (rounds >= config.max_derivation_depth \/ Len(queue) = 0)
    /\ result' = None
    /\ pc' = "done"
    /\ UNCHANGED <<lexicon, config, next_index, workspaces, setup, sentence, words,
                   lexical_trees, queue, seen_trees, word_i, rounds, attempts,
                   tree, other, call>>

Next ==
    \/ \E s \in Setups : SetupParser(s)
    \/ \E cfg \in Configs : SetConfig(cfg)
    \/ \E s \in Sentences : StartParse(s)
    \/ SeedWord
    \/ SeedNull
    \/ Round
    \/ Exhaust

Spec == Init /\ [][Next]_vars

\* a step of a running parse_internal call
ParseStep == SeedWord \/ SeedNull \/ Round \/ Exhaust

(***************************************************************************)
(* Properties of the search driver                                         *)
(***************************************************************************)
Returned == pc = "done"
Tokens == split_whitespace(sentence)
SameSeq(a, b) == Len(a) = Len(b) /\ \A i \in 1..Len(a) : a[i] = b[i]

\* the configuration ParserConfig::default(), as the set-up functions leave it
IsDefaultConfig ==
    \/ config = ParserConfigDefault
    \/ config = [ParserConfigDefault EXCEPT !.allow_remnant_movement = TRUE]

\* C1: whenever parse returns Some(t), linearize(t) equals the tokenised
\* input: same length, same word at every position.
C1_RoundTrip ==
    (Returned /\ IsSome(result)) => SameSeq(linearize(Unwrap(result)), Tokens)

\* a parse that returned a tree built by Merge for a two-word sentence
C1_Witness ==
    /\ Returned /\ IsSome(result)
    /\ Len(Tokens) = 2
    /\ Len(Unwrap(result).children) = 2

\* C2 (Scenario A): with the lexicon the:[D,=N], cat:[N], sleeps:[V,=D] and
\* the default configuration, parse("the cat sleeps") returns a tree whose
\* linearization is the, cat, sleeps.
C2_ScenarioA ==
    (/\ Returned
     /\ setup = "english"
     /\ IsDefaultConfig
     /\ sentence = <<"the", " ", "cat", " ", "sleeps">>)
    => (/\ IsSome(result)
        /\ linearize(Unwrap(result)) = <<"the", "cat", "sleeps">>)

\* C3 (Scenario C): with the wh-lexicon, parse("what John saw") returns a
\* tree whose root form is "what", whose root chain tail is non-empty and
\* whose linearization is what, John, saw.
C3_ScenarioC ==
    (/\ Returned
     /\ setup = "wh"
     /\ IsDefaultConfig
     /\ sentence = <<"what", " ", "John", " ", "saw">>)
    => (/\ IsSome(result)
        /\ Unwrap(result).chain.head.phonetic_form = "what"
        /\ Len(Unwrap(result).chain.tail) > 0
        /\ linearize(Unwrap(result)) = <<"what", "John", "saw">>)

HasUnknownToken ==
    \E i \in 1..Len(Tokens) : get_categories(lexicon, Tokens[i]) = {}

\* C8: if any token of the sentence has no lexicon entry, parse returns None
\* before the search starts: no round is run, no Merge or Move is attempted
\* and nothing is ever queued, whatever the other tokens are.
C8_UnknownWord ==
    (pc \in {"seeding", "search", "done"} /\ HasUnknownToken)
    => (/\ rounds = 0
        /\ attempts = 0
        /\ queue = <<>>
        /\ pc # "search"
        /\ (Returned => result = None))

\* the unknown word is the second token, after a known one was seeded
C8_Witness ==
    /\ Returned
    /\ Len(Tokens) = 2
    /\ get_categories(lexicon, Tokens[1]) # {}
    /\ get_categories(lexicon, Tokens[2]) = {}
    /\ Len(lexical_trees) > 0
    /\ result = None

\* what is left of the loops of a running call: words to seed, rounds to run
Remaining ==
    (IF pc = "seeding" THEN Len(words) + 1 - word_i + 1 ELSE 0)
    + (IF pc \in {"seeding", "search"}
       THEN config.max_derivation_depth - rounds + 1 ELSE 0)

\* every step of a running call uses up part of its loops
ParseProgress ==
    pc \in {"seeding", "search"} => (Remaining' < Remaining /\ Remaining' >= 0)

\* a return from the search loop that did not dequeue a tree returns None
ExhaustReturnsNone ==
    (pc = "search" /\ pc' = "done" /\ rounds' = rounds) => result' = None

\* C9: every parse call returns after dequeuing at most
\* max_derivation_depth trees (a running call can always take a step, each
\* step uses up part of its loops, and the rounds never exceed the budget);
\* it returns a tree only if that tree was dequeued and passed the
\* acceptance test, and None when the queue empties or the budget runs out.
C9_BoundedSearch ==
    /\ [](rounds <= config.max_derivation_depth)
    /\ [](pc \in {"seeding", "search"} => ENABLED ParseStep)
    /\ [][ParseProgress]_vars
    /\ []((Returned /\ IsSome(result)) =>
             (rounds >= 1 /\ Accepts(Unwrap(result), words)))
    /\ [][ExhaustReturnsNone]_vars

\* the round budget ran out with trees still queued, and None was returned
C9_Witness ==
    /\ Returned
    /\ rounds = config.max_derivation_depth
    /\ Len(queue) > 0
    /\ result = None

RECURSIVE NodesOf(_)
\* the nodes of a tree, in pre-order
NodesOf(t) ==
    <<t>> \o (IF Len(t.children) = 2
              THEN NodesOf(t.children[1]) \o NodesOf(t.children[2]) ELSE <<>>)

IsTraceNode(n) == n.chain.head.phonetic_form = "" /\ Len(n.chain.head.features) = 0

DistinctIndices(t) ==
    LET ns == NodesOf(t)
    IN \A i, j \in 1..Len(ns) :
          (i # j /\ ~IsTraceNode(ns[i]) /\ ~IsTraceNode(ns[j]))
          => ns[i].index # ns[j].index

BuiltTrees == Range(queue) \cup Range(seen_trees) \cup Range(result)

\* C10: within one parse call the indices come from the counter reset at the
\* start of the call (every index in use is below the counter), and in every
\* tree built during the call no two distinct non-trace nodes share an index.
C10_UniqueIndices ==
    \A t \in BuiltTrees :
        /\ \A i \in 1..Len(NodesOf(t)) : NodesOf(t)[i].index < next_index
        /\ DistinctIndices(t)

(***************************************************************************)
(* The workspace registry driven directly: WorkspaceRegistry::new() and    *)
(* then any sequence of its operations                                     *)
(***************************************************************************)
\* most workspaces a registry grows to here
MaxWs == 2

WsIds == 0..MaxWs

\* the trees of test_workspace_registry
WsTrees ==
    { leaf(NewItem("the", <<Categorial("D")>>), 0),
      leaf(NewItem("cat", <<Categorial("N")>>), 1) }

WsCall(op, a, b, ret, reg) ==
    [op |-> op, from |-> a, to |-> b, ret |-> ret,
     pre |-> get_tree(reg, a), len |-> Len(reg.workspaces)]

WsFrame ==
    UNCHANGED <<lexicon, config, next_index, setup, parseVars, tree, other>>

\* MinimalistParser::new(): its registry is WorkspaceRegistry::new()
WsInit == Init

WsNewWorkspace ==
    /\ Len(workspaces.workspaces) < MaxWs
    /\ workspaces' = new_workspace(workspaces)[1]
    /\ call' = WsCall("new_workspace", 0, 0, new_workspace(workspaces)[2], workspaces)
    /\ WsFrame

WsAddTree(id, t) ==
    /\ workspaces' = add_tree(workspaces, id, t)[1]
    /\ call' = WsCall("add_tree", id, id, add_tree(workspaces, id, t)[2], workspaces)
    /\ WsFrame

WsActivate(id) ==
    /\ workspaces' = activate(workspaces, id)
    /\ call' = WsCall("activate", id, id, TRUE, workspaces)
    /\ WsFrame

WsDeactivate(id) ==
    /\ workspaces' = deactivate(workspaces, id)
    /\ call' = WsCall("deactivate", id, id, TRUE, workspaces)
    /\ WsFrame

WsTransferTree(a, b) ==
    /\ workspaces' = transfer_tree(workspaces, a, b)[1]
    /\ call' = WsCall("transfer_tree", a, b, transfer_tree(workspaces, a, b)[2],
                      workspaces)
    /\ WsFrame

WsCopyTree(a) ==
    /\ Len(workspaces.workspaces) < MaxWs
    /\ workspaces' = copy_tree(workspaces, a)[1]
    /\ call' = WsCall("copy_tree", a, a, copy_tree(workspaces, a)[2], workspaces)
    /\ WsFrame

WsMergeWorkspaces(a, b) ==
    /\ Len(workspaces.workspaces) < MaxWs
    /\ workspaces' = merge_workspaces(workspaces, a, b)[1]
    /\ call' = WsCall("merge_workspaces", a, b,
                      merge_workspaces(workspaces, a, b)[2], workspaces)
    /\ WsFrame

WsNext ==
    \/ WsNewWorkspace
    \/ \E id \in WsIds, t \in WsTrees : WsAddTree(id, t)
    \/ \E id \in WsIds : WsActivate(id)
    \/ \E id \in WsIds : WsDeactivate(id)
    \/ \E a, b \in WsIds : WsTransferTree(a, b)
    \/ \E a \in WsIds : WsCopyTree(a)
    \/ \E a, b \in WsIds : WsMergeWorkspaces(a, b)

WsSpec == WsInit /\ [][WsNext]_vars

\* C4: for every registry state and every pair of ids a, b, if
\* transfer_tree(a, b) returns true then afterwards get_tree(a) is None and
\* get_tree(b) is the tree get_tree(a) returned just before the call.
C4_Transfer ==
    (call.op = "transfer_tree" /\ call.ret = TRUE)
    => (/\ get_tree(workspaces, call.from) = None
        /\ get_tree(workspaces, call.to) = call.pre)

(***************************************************************************)
(* The engines driven directly, as the unit tests do: a parser from        *)
(* with_config, trees built with leaf and merge, then apply_merge,         *)
(* apply_move, complete_phase and check_extraction on them                 *)
(***************************************************************************)
\* indices a direct-call run may draw
MaxOpIndex == 2

\* largest target index asked of check_extraction
MaxTarget == 5

\* create_cp_phase() of phase.rs: [DP [C]] labelled with Categorial C only
create_cp_phase ==
    merge(leaf(NewItem("John", <<Categorial("D")>>), 1),
          leaf(NewItem("that", <<Categorial("C"), Phase("C")>>), 0),
          <<Categorial("C")>>, 3)

\* create_complex_structure of phase.rs: [C [DP_subj [v [DP_obj V]]]]
create_complex_structure ==
    merge(merge(leaf(NewItem("John", <<Categorial("D")>>), 5),
                merge(merge(leaf(NewItem("Mary", <<Categorial("D")>>), 0),
                            leaf(NewItem("sees", <<Categorial("V")>>), 1),
                            <<Categorial("V")>>, 2),
                      leaf(NewItem("", <<Categorial("v"), Phase("v")>>), 3),
                      <<Categorial("v")>>, 4),
                <<Categorial("vP")>>, 6),
          leaf(NewItem("that", <<Categorial("C"), Phase("C")>>), 7),
          <<Categorial("CP")>>, 8)

\* the same phrase labelled with the head's Phase feature as well
CpPhaseMarked ==
    merge(leaf(NewItem("John", <<Categorial("D")>>), 1),
          leaf(NewItem("that", <<Categorial("C"), Phase("C")>>), 0),
          <<Categorial("C"), Phase("C")>>, 3)

\* the cp of test_move_operation
MoveCp ==
    merge(merge(leaf(NewItem("what", <<Licensee("wh"), Categorial("D")>>), 0),
                leaf(NewItem("see", <<Categorial("V"), Selector("D")>>), 1),
                <<Categorial("V")>>, 2),
          leaf(NewItem("", <<Licensor("wh"), Categorial("C")>>), 3),
          <<Licensor("wh"), Categorial("C")>>, 4)

\* a phase whose edge element is a moved phrase carrying a trace tail
CpMovedEdge ==
    merge(Unwrap(apply_move(MoveCp, 5).ret),
          leaf(NewItem("that", <<Categorial("C"), Phase("C")>>), 6),
          <<Categorial("C"), Phase("C")>>, 7)

\* the c_node of test_phase_constraints
PhaseHeadLeaf ==
    leaf(NewItem("that", <<Selector("T"), Categorial("C"), Phase("C")>>), 0)

\* the dp of test_basic_parsing
BasicDp ==
    merge(leaf(NewItem("cat", <<Categorial("N")>>), 1),
          leaf(NewItem("the", <<Categorial("D")>>), 0),
          <<Categorial("D")>>, 2)

\* a licensor over two licensees, one in each subtree
MoveTwo ==
    merge(leaf(NewItem("what", <<Licensee("wh"), Categorial("D")>>), 0),
          merge(leaf(NewItem("who", <<Licensee("wh"), Categorial("D")>>), 1),
                leaf(NewItem("see", <<Categorial("V")>>), 2),
                <<Categorial("V")>>, 3),
          <<Licensor("wh"), Categorial("C")>>, 4)

\* a licensor whose name no licensee in the tree bears
MoveNone ==
    merge(leaf(NewItem("what", <<Licensee("wh"), Categorial("D")>>), 0),
          leaf(NewItem("see", <<Categorial("V")>>), 1),
          <<Licensor("top"), Categorial("C")>>, 2)

\* a phrase that has moved once (tail [0]) and now bears Licensee(top), under
\* a head with Licensor(top): successive movement
MovedOnce ==
    Unwrap(apply_move(
        merge(merge(leaf(NewItem("what", <<Licensee("wh"), Categorial("D")>>), 0),
                    leaf(NewItem("see", <<Categorial("V"), Selector("D")>>), 1),
                    <<Categorial("V")>>, 2),
              leaf(NewItem("", <<Licensor("wh"), Licensee("top"),
                                 Categorial("C")>>), 3),
              <<Licensor("wh"), Licensee("top"), Categorial("C")>>, 4),
        5).ret)

SuccessiveCp ==
    merge(MovedOnce,
          leaf(NewItem("", <<Licensor("top"), Categorial("C")>>), 6),
          <<Licensor("top"), Categorial("C")>>, 7)

\* agreement maps as LexicalItem::with_agreement takes them
AgrSg == [k \in {"num"} |-> Atomic("sg")]
AgrPl == [k \in {"num"} |-> Atomic("pl")]

OpTrees ==
    { create_cp_phase, CpPhaseMarked, MoveCp, CpMovedEdge, PhaseHeadLeaf,
      BasicDp, MoveTwo, MoveNone, SuccessiveCp, create_complex_structure,
      leaf(NewItem("the", <<Selector("N"), Categorial("D")>>), 0),
      leaf(NewItem("cat", <<Categorial("N")>>), 0),
      leaf(NewItem("big", <<AdjunctSelector("N"), Categorial("N")>>), 0),
      leaf(NewItem("has", <<StrongSelector("T"), Categorial("C")>>), 0),
      leaf(NewItem("ran", <<Categorial("V"), Delayed(Selector("N"))>>), 0),
      leaf(NewItem("runs", <<Categorial("V"), Delayed(StrongSelector("N"))>>), 0),
      leaf(NewItem("eat", <<Selector("N"), Categorial("V"),
                            Delayed(Selector("N"))>>), 0),
      leaf(NewItem("old", <<AdjunctSelector("N"), Categorial("N"),
                            Delayed(Selector("N"))>>), 0),
      leaf(LexicalItem("sleeps", <<Selector("D"), Categorial("V")>>,
                       Some(AgrSg)), 0),
      leaf(NewItem("", <<>>), 0) }

OpSpecifiers ==
    { leaf(NewItem("cat", <<Categorial("N")>>), 1),
      leaf(NewItem("it", <<Categorial("D")>>), 1),
      leaf(LexicalItem("he", <<Categorial("D")>>, Some(AgrSg)), 1),
      leaf(LexicalItem("they", <<Categorial("D")>>, Some(AgrPl)), 1),
      leaf(NewItem("", <<Categorial("T")>>), 2),
      leaf(NewItem("will", <<Categorial("T")>>), 1),
      leaf(NewItem("the", <<Selector("N"), Categorial("D")>>), 1) }

OpConfigs ==
    { [ParserConfigDefault EXCEPT !.merge_strategies = ms,
                                  !.phase_config.enforce_pic = pic] :
        ms \in StrategyLists, pic \in BOOLEAN }

OpCall(op, ret, arg, done) ==
    [op |-> op, ret |-> ret, arg |-> arg, completed |-> done]

OpFrame == UNCHANGED <<lexicon, config, workspaces, setup, parseVars, other>>


\* MinimalistParser::with_config(cfg), and the trees the caller holds
OpInit ==
    /\ lexicon = LexiconNew
    /\ config \in OpConfigs
    /\ next_index = 0
    /\ workspaces = RegistryNew
    /\ setup = "new"
    /\ sentence = <<>>
    /\ words = <<>>
    /\ lexical_trees = <<>>
    /\ queue = <<>>
    /\ seen_trees = <<>>
    /\ pc = "new"
    /\ word_i = 0
    /\ rounds = 0
    /\ attempts = 0
    /\ result = None
    /\ tree \in {Some(t) : t \in OpTrees}
    /\ other \in {Some(t) : t \in OpSpecifiers}
    /\ call = OpCall("none", None, 0, FALSE)

\* parser.apply_merge(&other, &tree)
OpApplyMerge ==
    /\ next_index < MaxOpIndex
    /\ LET r == apply_merge(config, Unwrap(other), Unwrap(tree), next_index)
       IN /\ call' = OpCall("apply_merge", r.ret, 0, call.completed)
          /\ next_index' = r.next
    /\ UNCHANGED tree
    /\ OpFrame

\* parser.apply_move(&tree)
OpApplyMove ==
    /\ next_index < MaxOpIndex
    /\ LET r == apply_move(Unwrap(tree), next_index)
       IN /\ call' = OpCall("apply_move", r.ret, 0, call.completed)
          /\ next_index' = r.next
    /\ UNCHANGED tree
    /\ OpFrame

\* let mut merged = result.unwrap()
OpUnwrap ==
    /\ call.op \in {"apply_merge", "apply_move", "sideward_move"}
    /\ IsSome(call.ret)
    /\ tree' = call.ret
    /\ call' = OpCall("unwrap", None, 0, FALSE)
    /\ UNCHANGED next_index
    /\ OpFrame

\* tree.complete_phase()
OpCompletePhase ==
    /\ tree' = Some(complete_phase(Unwrap(tree)))
    /\ call' = OpCall("complete_phase", None, 0, TRUE)
    /\ UNCHANGED next_index
    /\ OpFrame

\* checker.check_extraction(&tree, i), the checker built on the parser's
\* phase_config
OpCheckExtraction(i) ==
    /\ call' = OpCall("check_extraction",
                      Some(check_extraction(config.phase_config, Unwrap(tree), i)),
                      i, call.completed)
    /\ UNCHANGED <<tree, next_index>>
    /\ OpFrame

\* parser.linearize(&tree)
OpLinearize ==
    /\ call' = OpCall("linearize", Some(linearize(Unwrap(tree))), 0,
                      call.completed)
    /\ UNCHANGED <<tree, next_index>>
    /\ OpFrame

\* checker.transfer_phase(&mut tree), the checker built on the parser's
\* phase_config; it calls tree.complete_phase() when the tree is a phase head
OpTransferPhase ==
    /\ tree' = Some(transfer_phase(config.phase_config, Unwrap(tree)))
    /\ call' = OpCall("transfer_phase", None, 0,
                      call.completed
                        \/ is_phase_head(config.phase_config, Unwrap(tree)))
    /\ UNCHANGED next_index
    /\ OpFrame

OpNext ==
    \/ OpLinearize
    \/ OpTransferPhase
    \/ OpApplyMerge
    \/ OpApplyMove
    \/ OpUnwrap
    \/ OpCompletePhase
    \/ \E i \in 0..MaxTarget : OpCheckExtraction(i)

OpSpec == OpInit /\ [][OpNext]_vars

(***************************************************************************)
(* The same calls on a parser whose registry holds two trees, with         *)
(* sideward_move                                                           *)
(***************************************************************************)
\* the registry of test_workspaces: two workspaces, the first holding the
\* tree and the second the other tree
SwWorkspaces(t, o) ==
    LET ws1 == new_workspace(RegistryNew)
        ws2 == new_workspace(ws1[1])
    IN add_tree(add_tree(ws2[1], ws1[2], t)[1], ws2[2], o)[1]

SwTrees ==
    { CpPhaseMarked, complete_phase(CpPhaseMarked), MoveCp,
      leaf(NewItem("the", <<Categorial("D"), Selector("N")>>), 0),
      leaf(NewItem("old", <<AdjunctSelector("N"), Categorial("N"),
                            Delayed(Selector("N"))>>), 0) }

SwSpecifiers ==
    { leaf(NewItem("book", <<Categorial("N")>>), 1),
      leaf(NewItem("of", <<Selector("N"), Categorial("P")>>), 1) }

\* the chains handed to sideward_move
SwChains == {t.chain : t \in SwSpecifiers}

SwConfigs == {c \in OpConfigs : Len(c.merge_strategies) = 3}

SwInit ==
    /\ lexicon = LexiconNew
    /\ config \in SwConfigs
    /\ next_index = 0
    /\ setup = "new"
    /\ sentence = <<>>
    /\ words = <<>>
    /\ lexical_trees = <<>>
    /\ queue = <<>>
    /\ seen_trees = <<>>
    /\ pc = "new"
    /\ word_i = 0
    /\ rounds = 0
    /\ attempts = 0
    /\ result = None
    /\ tree \in {Some(t) : t \in SwTrees}
    /\ other \in {Some(t) : t \in SwSpecifiers}
    /\ workspaces = SwWorkspaces(Unwrap(tree), Unwrap(other))
    /\ call = OpCall("none", None, 0, FALSE)

\* parser.sideward_move(ws2, ws1, moved_chain, movement_type)
SwSidewardMove(moved_chain, movement_type) ==
    /\ next_index < MaxOpIndex
    /\ LET r == sideward_move(workspaces, next_index, 1, 0, moved_chain,
                              movement_type)
       IN /\ call' = OpCall("sideward_move", r.ret, movement_type,
                            call.completed)
          /\ next_index' = r.next
          /\ workspaces' = r.workspaces
    /\ UNCHANGED <<lexicon, config, setup, parseVars, tree, other>>

SwNext ==
    \/ \E ch \in SwChains, ty \in SidewardMovementTypes : SwSidewardMove(ch, ty)
    \/ OpNext

SwSpec == SwInit /\ [][SwNext]_vars

OpPhase == Unwrap(tree)
OpEdge == get_phase_edge(config.phase_config, OpPhase)
AtEdge(i) ==
    \E k \in 1..Len(OpEdge) :
        OpEdge[k].index = i \/ i \in Range(OpEdge[k].chain.tail)

\* C5: with enforce_pic set, for every node P that PhaseChecker::is_phase_head
\* accepts and on which complete_phase() has been called, check_extraction(P, i)
\* is true exactly when i is the index of an edge element of P or occurs in an
\* edge element's trace tail, and false for every other i.
C5_PicExtraction ==
    (/\ call.op = "check_extraction"
     /\ config.phase_config.enforce_pic
     /\ call.completed
     /\ is_phase_head(config.phase_config, OpPhase))
    => (Unwrap(call.ret) <=> AtEdge(call.arg))

HeadSelects(head, spec) ==
    /\ Len(head.chain.head.features) > 0
    /\ Len(spec.chain.head.features) > 0
    /\ head.chain.head.features[1].kind \in {"Selector", "StrongSelector"}
    /\ spec.chain.head.features[1].kind = "Categorial"
    /\ head.chain.head.features[1].name = spec.chain.head.features[1].name

\* C6: with enforce_pic set, apply_merge(spec, head) returns None for every
\* spec once head.is_phase and head.phase_completed both hold; for a head with
\* phase_completed false whose first feature selects the spec's first feature
\* it returns Some (Standard Merge configured, as in Scenario D).
C6_PicBlocksMerge ==
    (call.op = "apply_merge" /\ config.phase_config.enforce_pic)
    => (/\ (Unwrap(tree).is_phase /\ Unwrap(tree).phase_completed)
               => call.ret = None
        /\ (/\ ~Unwrap(tree).phase_completed
            /\ HeadSelects(Unwrap(tree), Unwrap(other))
            /\ "Standard" \in Range(config.merge_strategies))
               => IsSome(call.ret))

\* a completed phase head refused a specifier it selects
C6_Witness ==
    /\ call.op = "apply_merge"
    /\ config.phase_config.enforce_pic
    /\ Unwrap(tree).is_phase /\ Unwrap(tree).phase_completed
    /\ HeadSelects(Unwrap(tree), Unwrap(other))
    /\ call.ret = None

FormsPair(head, spec) ==
    /\ Len(head.chain.head.features) > 0
    /\ Len(spec.chain.head.features) > 0
    /\ head.chain.head.features[1].kind
           \in {"Selector", "StrongSelector", "AdjunctSelector"}
    /\ spec.chain.head.features[1].kind = "Categorial"
    /\ head.chain.head.features[1].name = spec.chain.head.features[1].name

DelayedMatch(head, spec) ==
    /\ Len(head.delayed_features) > 0
    /\ Len(spec.chain.head.features) > 0
    /\ head.delayed_features[1].kind \in {"Selector", "StrongSelector"}
    /\ spec.chain.head.features[1].kind = "Categorial"
    /\ head.delayed_features[1].name = spec.chain.head.features[1].name

BareN(t) ==
    /\ Len(t.children) = 0
    /\ t.chain.head.features = <<Categorial("N")>>

IsPronouncedLeaf(n) == Len(n.children) = 0 /\ n.chain.head.phonetic_form # ""

\* built by Merge from pronounced leaves with pairwise distinct indices
MergedFromPronounced(t) ==
    LET ns == NodesOf(t)
    IN /\ Len(t.children) = 2
       /\ \A i \in 1..Len(ns) :
             /\ ns[i].chain.tail = <<>>
             /\ Len(ns[i].children) = 0 => ns[i].chain.head.phonetic_form # ""
       /\ \A i, j \in 1..Len(ns) :
             (i # j /\ Len(ns[i].children) = 0 /\ Len(ns[j].children) = 0)
             => ns[i].index # ns[j].index

\* one form per pronounced leaf, by ascending leaf index
LeafForms(t) ==
    LET ls == SelectSeq(NodesOf(t), IsPronouncedLeaf)
        byIndex == SortByKey([i \in 1..Len(ls) |->
                                <<ls[i].chain.head.phonetic_form, ls[i].index>>])
    IN [i \in 1..Len(byIndex) |-> byIndex[i][1]]

\* C11: for a tree built by Merge from pronounced leaves with pairwise
\* distinct indices, linearize returns exactly one form per pronounced leaf,
\* in ascending order of leaf index; the internal nodes add no forms.
C11_LeafOrder ==
    (call.op = "linearize" /\ MergedFromPronounced(Unwrap(tree)))
    => Unwrap(call.ret) = LeafForms(Unwrap(tree))

(***************************************************************************)
(* Feature registration                                                    *)
(***************************************************************************)
AllRegistered(item) ==
    \A i \in 1..Len(item.features) : validate_feature(item.features[i])

\* C12: an entry that uses a categorial or movement feature name which has
\* not been registered is rejected when the lexicon is built: add_to_lexicon
\* does not insert it, and no parse seeds a leaf from it.
C12_RejectUnregistered ==
    /\ \A e \in lexicon : AllRegistered(e[2])
    /\ \A i \in 1..Len(lexical_trees) :
          AllRegistered(lexical_trees[i].chain.head)

(***************************************************************************)
(* Standard merge: head movement, agreement, strategy order                *)
(***************************************************************************)
\* Standard merge applies with a StrongSelector first on the head, and no
\* other strategy can apply
HeadMoves(head, spec) ==
    /\ HeadSelects(head, spec)
    /\ head.chain.head.features[1].kind = "StrongSelector"
    /\ Len(head.delayed_features) = 0

\* C13: when Standard merge applies and the head's first feature is a
\* StrongSelector, the result is a single fused node without children whose
\* phonetic form is the head's form followed by the specifier's form and
\* whose features are the head's features minus the first.
C13_HeadMovement ==
    (/\ call.op = "apply_merge"
     /\ IsSome(call.ret)
     /\ HeadMoves(Unwrap(tree), Unwrap(other)))
    => (/\ Unwrap(call.ret).children = <<>>
        /\ Unwrap(call.ret).chain.head.phonetic_form
              = Unwrap(tree).chain.head.phonetic_form
                  \o Unwrap(other).chain.head.phonetic_form
        /\ Unwrap(call.ret).chain.head.features
              = Tail(Unwrap(tree).chain.head.features))

\* Standard merge is the one strategy that can apply to the pair
StandardMerges(head, spec) ==
    /\ HeadSelects(head, spec)
    /\ head.chain.head.features[1].kind = "Selector"
    /\ Len(head.delayed_features) = 0

\* the two agreement maps give different atomic values to one key
Conflicting(a, b) ==
    /\ IsSome(a)
    /\ IsSome(b)
    /\ \E k \in DOMAIN Unwrap(a) \cap DOMAIN Unwrap(b) :
          /\ Unwrap(a)[k].kind = "Atomic"
          /\ Unwrap(b)[k].kind = "Atomic"
          /\ Unwrap(a)[k].s # Unwrap(b)[k].s

UnifiedAgreement(a, b) ==
    IF IsSome(a) /\ IsSome(b) THEN unify(Unwrap(a), Unwrap(b))
    ELSE IF IsSome(a) THEN a ELSE b

\* C14: Standard merge of a specifier and a head whose agreement maps give
\* different atomic values to the same key returns None; when the maps are
\* compatible the new node's agreement is their unification.
C14_AgreementConflict ==
    (/\ call.op = "apply_merge"
     /\ "Standard" \in Range(config.merge_strategies)
     /\ ~PicBlocks(config, Unwrap(tree))
     /\ StandardMerges(Unwrap(tree), Unwrap(other)))
    => LET a == Unwrap(other).chain.agreement
           b == Unwrap(tree).chain.agreement
       IN /\ Conflicting(a, b) => call.ret = None
          /\ (~Conflicting(a, b) /\ IsSome(call.ret))
                => Unwrap(call.ret).chain.agreement = UnifiedAgreement(a, b)

\* the strategy's own applicability test and result
Applicable(s, spec, head) ==
    IF s = "Standard" THEN StandardApplies(spec, head)
    ELSE IF s = "PairMerge" THEN PairMergeApplies(spec, head)
    ELSE LateMergeApplies(spec, head)

ResultOf(s, spec, head, n) ==
    IF s = "Standard" THEN StandardMerge(spec, head, n)
    ELSE IF s = "PairMerge" THEN PairMerge(spec, head, n)
    ELSE late_merge(head, spec, n)

\* what apply_merge returns when the strategies of list that are enabled are
\* tried in the order of list
FirstApplicable(list, spec, head, n) ==
    LET hits == {i \in 1..Len(list) :
                    /\ list[i] \in Range(config.merge_strategies)
                    /\ Applicable(list[i], spec, head)}
    IN IF hits = {} THEN None
       ELSE LET first == CHOOSE i \in hits : \A j \in hits : i <= j
            IN Some(ResultOf(list[first], spec, head, n))

PriorityOrder == <<"Standard", "PairMerge", "LateMerge">>

SeveralApplicable(spec, head) ==
    Cardinality({s \in Range(config.merge_strategies) :
                    Applicable(s, spec, head)}) > 1

HasLicensor(t) ==
    /\ Len(t.chain.head.features) > 0
    /\ t.chain.head.features[1].kind = "Licensor"

\* positions, in the pre-order of t, of the nodes whose first feature is the
\* licensee that the first feature of t licenses
Licensees(t) ==
    LET ns == NodesOf(t)
    IN {i \in 1..Len(ns) :
           /\ Len(ns[i].chain.head.features) > 0
           /\ ns[i].chain.head.features[1].kind = "Licensee"
           /\ ns[i].chain.head.features[1].name = t.chain.head.features[1].name}

FirstLicensee(t) == CHOOSE i \in Licensees(t) : \A j \in Licensees(t) : i <= j

\* C16: apply_move(t) returns a result only if the first feature of t is
\* Licensor(name) and some node of t has Licensee(name) as its first feature;
\* the node displaced is the first such node in pre-order (left subtree
\* before right); in every other case the result is None.
C16_MoveCondition ==
    call.op = "apply_move"
    => LET t == Unwrap(tree)
       IN IF HasLicensor(t) /\ Licensees(t) # {}
          THEN /\ IsSome(call.ret)
               /\ LET found == NodesOf(t)[FirstLicensee(t)]
                      site == NodesOf(Unwrap(call.ret).children[1])[FirstLicensee(t)]
                  IN /\ IsTraceNode(site)
                     /\ Len(site.children) = 0
                     /\ site.index = found.index
                     /\ Unwrap(call.ret).chain.head.phonetic_form
                           = found.chain.head.phonetic_form
          ELSE call.ret = None

\* two licensees for one licensor; the one in the left subtree moved
C16_Witness ==
    /\ call.op = "apply_move"
    /\ HasLicensor(Unwrap(tree))
    /\ Cardinality(Licensees(Unwrap(tree))) = 2
    /\ IsSome(call.ret)
    /\ Unwrap(call.ret).chain.head.phonetic_form = "what"

\* the node apply_move displaces from t
Displaced(t) == NodesOf(t)[FirstLicensee(t)]

\* C17: when apply_move displaces a node at index i whose chain already
\* carries trace indices T, the chain tail of the new root is T together
\* with i (earlier trace positions are kept across successive movement).
C17_TailAccumulates ==
    (call.op = "apply_move" /\ IsSome(call.ret))
    => LET new_tail == Unwrap(call.ret).chain.tail
           old_tail == Displaced(Unwrap(tree)).chain.tail
           i == Displaced(Unwrap(tree)).index
           InTail(x, tail) == \E k \in 1..Len(tail) : tail[k] = x
       IN /\ InTail(i, new_tail)
          /\ \A k \in 1..Len(old_tail) : InTail(old_tail[k], new_tail)
          /\ \A k \in 1..Len(new_tail) :
                new_tail[k] = i \/ InTail(new_tail[k], old_tail)

\* C18 (as stated): the new root returned by apply_move carries the moved
\* item's phonetic form and, as its feature list, the moved item's remaining
\* features (the displaced node's features after its Licensee is removed).
C18_MovedFeatures ==
    (call.op = "apply_move" /\ IsSome(call.ret))
    => (/\ Unwrap(call.ret).chain.head.phonetic_form
              = Displaced(Unwrap(tree)).chain.head.phonetic_form
        /\ Unwrap(call.ret).chain.head.features
              = Tail(Displaced(Unwrap(tree)).chain.head.features))

\* C18 (amended): the new root returned by apply_move carries the moved
\* item's phonetic form and, as its feature list, the remaining features of
\* the tree Move was applied to (its root features after the Licensor is
\* removed).
C18_RootFeatures ==
    (call.op = "apply_move" /\ IsSome(call.ret))
    => (/\ Unwrap(call.ret).chain.head.phonetic_form
              = Displaced(Unwrap(tree)).chain.head.phonetic_form
        /\ Unwrap(call.ret).chain.head.features
              = Tail(Unwrap(tree).chain.head.features))

\* what [-wh, D] moved out of a tree labelled [+wh, C]: the new root is
\* "what" with features [C], not [D]
C18_Witness ==
    /\ call.op = "apply_move"
    /\ IsSome(call.ret)
    /\ Unwrap(tree) = MoveCp
    /\ Unwrap(call.ret).chain.head.phonetic_form = "what"
    /\ Unwrap(call.ret).chain.head.features = <<Categorial("C")>>
    /\ Tail(Displaced(Unwrap(tree)).chain.head.features) = <<Categorial("D")>>

\* the trace left in place of the displaced node, and the trace that is the
\* right child of the new root
SiteTrace(t, r) == NodesOf(r.children[1])[FirstLicensee(t)]
SecondTrace(r) == r.children[2]

IsTraceLeaf(n) ==
    /\ n.chain.head.phonetic_form = ""
    /\ n.chain.head.features = <<>>
    /\ n.children = <<>>

\* C19 (as stated): every trace node created by Move has an empty phonetic
\* form, an empty feature list and the index of the site it stands for: the
\* in-place trace carries the displaced node's index i, and the second trace
\* (right child of the new root) carries the index of the tree that Move was
\* applied to.
C19_TraceSites ==
    (call.op = "apply_move" /\ IsSome(call.ret))
    => LET t == Unwrap(tree)
           r == Unwrap(call.ret)
       IN /\ IsTraceLeaf(SiteTrace(t, r))
          /\ SiteTrace(t, r).index = Displaced(t).index
          /\ IsTraceLeaf(SecondTrace(r))
          /\ SecondTrace(r).index = t.index

\* C19 (amended): every trace node created by Move has an empty phonetic
\* form and an empty feature list; the in-place trace carries the displaced
\* node's index i, and the second trace (right child of the new root)
\* carries index 0.
C19_TraceIndices ==
    (call.op = "apply_move" /\ IsSome(call.ret))
    => LET t == Unwrap(tree)
           r == Unwrap(call.ret)
       IN /\ IsTraceLeaf(SiteTrace(t, r))
          /\ SiteTrace(t, r).index = Displaced(t).index
          /\ IsTraceLeaf(SecondTrace(r))
          /\ SecondTrace(r).index = 0

\* a node at index 5 moved out of a tree at index 7 by a Move that drew a
\* new index above 0: traces at 5 and at 0
C19_Witness ==
    /\ call.op = "apply_move"
    /\ IsSome(call.ret)
    /\ Unwrap(tree).index = 7
    /\ Displaced(Unwrap(tree)).index = 5
    /\ Unwrap(call.ret).index > 0
    /\ SiteTrace(Unwrap(tree), Unwrap(call.ret)).index = 5
    /\ SecondTrace(Unwrap(call.ret)).index = 0

(***************************************************************************)
(* Linearization after Move                                                *)
(***************************************************************************)
\* r is what apply_move returned: a chain with a trace position over the
\* tree that holds the trace, and the second trace
IsMoved(r) ==
    /\ Len(r.children) = 2
    /\ Len(r.chain.tail) > 0
    /\ IsTraceLeaf(r.children[2])

\* the moved form at its base index, and the pronounced leaves that stayed,
\* by ascending index
BaseOrder(r) ==
    LET ls == SelectSeq(NodesOf(r.children[1]), IsPronouncedLeaf)
        stayed == [k \in 1..Len(ls) |->
                      <<ls[k].chain.head.phonetic_form, ls[k].index>>]
        moved == <<r.chain.head.phonetic_form, r.chain.tail[Len(r.chain.tail)]>>
        byIndex == SortByKey(<<moved>> \o stayed)
    IN [k \in 1..Len(byIndex) |-> byIndex[k][1]]

\* C20: in linearize(apply_move(t)) the moved item's phonetic form occurs
\* exactly once, at the position given by its base index i, nothing is
\* pronounced for the traces, and every other pronounced leaf of t occurs
\* exactly once in index order (what@0 moved out of [what see@1] gives
\* [what, see]).
C20_MovedLinearization ==
    (call.op = "linearize" /\ IsMoved(Unwrap(tree)))
    => Unwrap(call.ret) = BaseOrder(Unwrap(tree))

(***************************************************************************)
(* Phase transfer                                                          *)
(***************************************************************************)
\* C21: after transfer_phase(t), every node of t at any depth for which
\* is_phase_head holds has phase_completed = true; a node that is not a phase
\* head does not stop the recursion into its two children.
C21_TransferAll ==
    call.op = "transfer_phase"
    => LET ns == NodesOf(Unwrap(tree))
       IN \A k \in 1..Len(ns) :
             is_phase_head(config.phase_config, ns[k]) => ns[k].phase_completed

(***************************************************************************)
(* Late merge                                                              *)
(***************************************************************************)
\* LateMerge is enabled and is the one strategy that applies to the pair
LateMerges(head, spec) ==
    /\ "LateMerge" \in Range(config.merge_strategies)
    /\ ~PicBlocks(config, head)
    /\ LateMergeApplies(spec, head)
    /\ ~StandardApplies(spec, head)
    /\ ~PairMergeApplies(spec, head)

\* C22: when LateMerge applies (head.delayed_features is non-empty and its
\* first entry matches the specifier's first feature), the returned tree has
\* that delayed feature removed, has the specifier attached as a child of the
\* head under a fresh index, and the specifier still carries its own first
\* feature.
C22_LateMergeAttaches ==
    (call.op = "apply_merge" /\ LateMerges(Unwrap(tree), Unwrap(other)))
    => (/\ IsSome(call.ret)
        /\ Unwrap(call.ret).delayed_features
              = Tail(Unwrap(tree).delayed_features)
        /\ Len(Unwrap(call.ret).children) = 2
        /\ Unwrap(call.ret).children[1] = Unwrap(other)
        /\ Unwrap(call.ret).chain = Unwrap(tree).chain
        /\ Unwrap(call.ret).index = next_index - 1)

(***************************************************************************)
(* Sideward movement                                                       *)
(***************************************************************************)
\* the tree of the target workspace
SwTarget == Unwrap(get_tree(workspaces, 0))

\* the first delayed feature of head is one that WholesaleLate appended, and
\* the feature it was made from selects the first feature of spec
WholesaleSelects(head, spec) ==
    /\ Len(head.delayed_features) > 0
    /\ head.delayed_features[1].kind = "Delayed"
    /\ IsSome(first_feature(spec))
    /\ matches(head.delayed_features[1].inner[1], Unwrap(first_feature(spec)))

\* C23: sideward_move with the WholesaleLateMerger strategy returns the
\* target's tree with the moved chain's first feature appended to
\* delayed_features, in a form that a later LateMerge can consume: once it is
\* the first delayed feature, apply_merge with LateMerge enabled succeeds for
\* a specifier whose first feature that feature selects.
C23_WholesaleConsumable ==
    /\ (call.op = "sideward_move" /\ call.arg = "WholesaleLate")
          => /\ IsSome(call.ret)
             /\ Len(Unwrap(call.ret).delayed_features)
                   = Len(SwTarget.delayed_features) + 1
             /\ [Unwrap(call.ret) EXCEPT !.delayed_features =
                                            SwTarget.delayed_features]
                   = SwTarget
    /\ (/\ call.op = "apply_merge"
        /\ "LateMerge" \in Range(config.merge_strategies)
        /\ ~PicBlocks(config, Unwrap(tree))
        /\ WholesaleSelects(Unwrap(tree), Unwrap(other)))
          => IsSome(call.ret)

(***************************************************************************)
(* The search: duplicates, leaves, phases                                  *)
(***************************************************************************)
\* C24: during a parse no Merge or Move result is enqueued if it is
\* structurally equal (same root index, same head features, same phonetic
\* form) to a tree already processed, so the queue and the seen-list together
\* never hold two structurally equal trees.
C24_NoDuplicates ==
    LET held == queue \o seen_trees
    IN \A i, j \in 1..Len(held) : i # j => ~tree_equals(held[i], held[j])


\* the trees the caller and the registry hold after a call
HeldTrees ==
    Range(tree) \cup Range(other)
      \cup (IF call.op \in {"apply_merge", "apply_move", "sideward_move"}
            THEN Range(call.ret) ELSE {})
      \cup UNION {Range(w.tree) : w \in Range(workspaces.workspaces)}

\* C25: phase_completed implies is_phase for every node of every tree built by
\* leaf, merge, pair_merge, late_merge, move, apply_merge, apply_move,
\* sideward_move, complete_phase and transfer_phase.
C25_CompletedIsPhase ==
    \A t \in HeldTrees :
       \A n \in Range(NodesOf(t)) : n.phase_completed => n.is_phase

\* sideward_move has embedded a completed phase below a new root
C25_Witness ==
    /\ call.op = "sideward_move"
    /\ IsSome(call.ret)
    /\ \E n \in Range(NodesOf(Unwrap(call.ret))) :
          /\ n.phase_completed
          /\ n.index # Unwrap(call.ret).index
          /\ Len(n.children) = 2


\* the number of leaves seeded for the tokens before token k
SeededBefore(k) ==
    LET n[j \in 0..Len(Tokens)] ==
          IF j = 0 THEN 0
          ELSE n[j - 1] + Cardinality(get_categories(lexicon, Tokens[j]))
    IN n[k - 1]

\* the indices of the leaves seeded for token k
SeededFor(k) ==
    {i \in 0..(next_index - 1) :
        /\ i >= SeededBefore(k)
        /\ i < SeededBefore(k) + Cardinality(get_categories(lexicon, Tokens[k]))}

\* how often the leaf seeded with index i occurs in t
Occurrences(t, i) ==
    LET ns == NodesOf(t)
    IN Cardinality({p \in 1..Len(ns) :
                      /\ Len(ns[p].children) = 0
                      /\ ns[p].index = i
                      /\ ~IsTraceNode(ns[p])
                      /\ ns[p].chain.head.phonetic_form
                           = lexical_trees[i + 1].chain.head.phonetic_form})

RECURSIVE SumOccurrences(_, _)
SumOccurrences(t, S) ==
    IF S = {} THEN 0
    ELSE LET i == CHOOSE x \in S : TRUE
         IN Occurrences(t, i) + SumOccurrences(t, S \ {i})

\* C26: whenever parse accepts a tree, it contains exactly one leaf for each
\* input token: every leaf seeded from an input word occurs in it, and no
\* seeded leaf occurs in it more than once.
C26_OneLeafPerToken ==
    (Returned /\ IsSome(result)) =>
       /\ \A k \in 1..Len(Tokens) :
             SumOccurrences(Unwrap(result), SeededFor(k)) = 1
       /\ \A k \in 1..Len(Tokens) : \A i \in SeededFor(k) :
             Occurrences(Unwrap(result), i) = 1


\* C27: during parse_internal no tree in the queue or in the seen-list has
\* phase_completed = true, so the Phase Impenetrability test at the top of
\* apply_merge rejects no merge of the search, whatever phase_config is set.
C27_NoCompletedPhase ==
    \A t \in Range(queue) \cup Range(seen_trees) :
       /\ \A n \in Range(NodesOf(t)) : ~n.phase_completed
       /\ ~PicBlocks(config, t)

\* the search holds a merged phase and a phase-head leaf, with the PIC enforced
C27_Witness ==
    /\ pc = "search"
    /\ config.phase_config.enforce_pic
    /\ \E t \in Range(queue) : t.is_phase /\ Len(t.children) = 2
    /\ \E t \in Range(seen_trees) : t.is_phase /\ Len(t.children) = 0


(***************************************************************************)
(* Move and pronounced material                                            *)
(***************************************************************************)
\* C28: apply_move loses no pronounced material: when the displaced node has
\* children, the form of every pronounced leaf beneath it still occurs in
\* linearize of the result.
C28_MoveKeepsForms ==
    (/\ call.op = "apply_move"
     /\ IsSome(call.ret)
     /\ Len(Displaced(Unwrap(tree)).children) = 2)
    => LET below == NodesOf(Displaced(Unwrap(tree)))
           derived == linearize(Unwrap(call.ret))
       IN \A k \in 1..Len(below) :
             IsPronouncedLeaf(below[k])
             => \E j \in 1..Len(derived) :
                   derived[j] = below[k].chain.head.phonetic_form


(***************************************************************************)
(* Workspace ids                                                           *)
(***************************************************************************)
\* the call created a workspace
AddsWorkspace ==
    \/ call.op = "new_workspace"
    \/ call.op \in {"copy_tree", "merge_workspaces"} /\ IsSome(call.ret)

\* C29: after any sequence of registry operations the workspace ids are
\* pairwise distinct and equal to 0..n-1 in creation order, no workspace is
\* ever removed, and only new_workspace, a successful copy_tree and a
\* successful merge_workspaces add a workspace, exactly one each.
C29_WorkspaceIds ==
    LET ws == workspaces.workspaces
    IN /\ \A i \in 1..Len(ws) : ws[i].id = i - 1
       /\ \A i, j \in 1..Len(ws) : i # j => ws[i].id # ws[j].id
       /\ workspaces.next_id = Len(ws)
       /\ call.op # "none"
            => Len(ws) = call.len + (IF AddsWorkspace THEN 1 ELSE 0)

\* a successful copy_tree created the second workspace
C29_Witness ==
    /\ call.op = "copy_tree"
    /\ IsSome(call.ret)
    /\ call.len = 1
    /\ Len(workspaces.workspaces) = 2
    /\ IsSome(workspaces.workspaces[2].tree)


(***************************************************************************)
(* Parser::parse for MinimalistParser: parse_internal run on a clone       *)
(***************************************************************************)
\* the fields of the parser the running code works on
ParserFields ==
    [next_index |-> next_index, workspaces |-> workspaces,
     lexicon |-> lexicon, config |-> config]

\* what a caller of parse holds: the parser it called parse on (self, while
\* the variables are those of the clone), and the first parse call's
\* sentence, seeded leaves and result
PCall(op, self, first, again) ==
    [op |-> op, self |-> self, first |-> first, again |-> again]

\* the sentences handed to Parser::parse
ParseSentences ==
    { <<"yes">>, <<"run", " ", "run">>, <<"cat", " ", "that">>,
      <<"the", " ", "zzz">> }

\* MinimalistParser::new()
PInit ==
    /\ lexicon = LexiconNew
    /\ config = ParserConfigDefault
    /\ next_index = 0
    /\ workspaces = RegistryNew
    /\ setup = "new"
    /\ sentence = <<>>
    /\ words = <<>>
    /\ lexical_trees = <<>>
    /\ queue = <<>>
    /\ seen_trees = <<>>
    /\ pc = "new"
    /\ word_i = 0
    /\ rounds = 0
    /\ attempts = 0
    /\ result = None
    /\ tree = None
    /\ other = None
    /\ call = PCall("none", ParserFields, None, FALSE)

\* parser.parse_internal(s) called on the parser itself
DirectParse(s) ==
    /\ pc \in {"idle", "done"}
    /\ call.op # "parse"
    /\ call' = PCall("parse_internal", ParserFields, call.first, call.again)
    /\ workspaces' = new_workspace(RegistryNew)[1]
    /\ next_index' = 0
    /\ sentence' = s
    /\ words' = split_whitespace(s)
    /\ lexical_trees' = <<>>
    /\ queue' = <<>>
    /\ seen_trees' = <<>>
    /\ word_i' = 1
    /\ rounds' = 0
    /\ attempts' = 0
    /\ result' = None
    /\ pc' = "seeding"
    /\ UNCHANGED <<lexicon, config, setup, tree, other>>

\* Parser::parse, lines 753-756: clone self and enter parse_internal on the
\* clone (its lines 231-238)
ParseEnter(s) ==
    /\ pc \in {"idle", "done"}
    /\ call.op # "parse"
    /\ call' = PCall("parse", ParserFields, call.first, call.again)
    /\ workspaces' = new_workspace(RegistryNew)[1]
    /\ next_index' = 0
    /\ sentence' = s
    /\ words' = split_whitespace(s)
    /\ lexical_trees' = <<>>
    /\ queue' = <<>>
    /\ seen_trees' = <<>>
    /\ word_i' = 1
    /\ rounds' = 0
    /\ attempts' = 0
    /\ result' = None
    /\ pc' = "seeding"
    /\ UNCHANGED <<lexicon, config, setup, tree, other>>

\* a parse that works on self instead of a clone
ParseInPlace(self, clone) == clone

\* the parser the caller holds when Parser::parse returns: self, which the
\* call only read; the clone is dropped
AfterParse(self, clone) == self

\* Parser::parse, line 757: parse_internal has returned
ParseReturn ==
    /\ call.op = "parse"
    /\ pc = "done"
    /\ LET p == AfterParse(call.self, ParserFields)
       IN /\ next_index' = p.next_index
          /\ workspaces' = p.workspaces
          /\ lexicon' = p.lexicon
          /\ config' = p.config
    /\ call' = PCall("parsed", call.self,
                     IF IsSome(call.first) THEN call.first
                     ELSE Some([sentence |-> sentence,
                                lexical_trees |-> lexical_trees,
                                result |-> result]),
                     IsSome(call.first))
    /\ UNCHANGED <<setup, parseVars, tree, other>>

PNext ==
    \/ \E s \in Setups : SetupParser(s)
    \/ \E s \in ParseSentences : DirectParse(s)
    \/ \E s \in ParseSentences : ParseEnter(s)
    \/ ParseReturn
    \/ SeedWord
    \/ SeedNull
    \/ Round
    \/ Exhaust

PSpec == PInit /\ [][PNext]_vars

====
